---------------------------- MODULE Spec2Model ----------------------------
(***************************************************************************)
(* A model of network-copilot's execution pipeline (app/utils.py):         *)
(*   run_code                 the toolchain dispatcher                     *)
(*   parse_analysis_response  the analysis normalizer                      *)
(*   analyze_code             the analysis orchestrator                    *)
(* and of the collaborator app/adapters/ollama_adapter.py:query_model.     *)
(*                                                                         *)
(* Text is a sequence of one-character strings.  A section marker such as  *)
(* "**What it does:**" is one element of such a sequence: the code only    *)
(* ever tests a line for containing it.                                    *)
(***************************************************************************)
EXTENDS Integers, Sequences, FiniteSets, TLC

VARIABLES
    pc,                  \* where the request stands
    mode,                \* the entry point of the request: "run_code", "analyze_code"
    calls,               \* requests started so far
    language,            \* run_code's argument language
    code,                \* run_code's argument code
    fs,                  \* the filesystem: existing workspace directory -> its files
    nextDir,             \* names the next fresh temporary directory
    tmpdir,              \* the directory of the running request
    procs,               \* the child processes the request has started, in order
    compile_proc,        \* the completed javac process, once there is one
    run_proc,            \* the completed java / python process, once there is one
    outcome,             \* "none", "returned", "raised"
    fault,               \* the exception that left the request, "none" without one
    run_result,          \* what run_code returned
    llm,                 \* what the analysis capability did
    llm_response_text,   \* analyze_code's raw text
    structured_analysis, \* analyze_code's parsed analysis
    report,              \* what analyze_code returned
    text,                \* parse_analysis_response's argument
    sections             \* what parse_analysis_response returned

vars == <<pc, mode, calls, language, code, fs, nextDir, tmpdir, procs, compile_proc,
          run_proc, outcome, fault, run_result, llm, llm_response_text,
          structured_analysis, report, text, sections>>

analyzeVars == <<llm, llm_response_text, structured_analysis>>
normVars == <<text, sections>>

-----------------------------------------------------------------------------
(* Bounds *)

MaxLangLen == 4
MaxCalls == 2
MaxTextLen == 5

-----------------------------------------------------------------------------
(* Option values *)

None == <<>>
Some(x) == <<x>>
IsSome(o) == Len(o) = 1
Get(o) == o[1]

SeqsUpTo(S, n) == UNION {[1..k -> S] : k \in 0..n}

-----------------------------------------------------------------------------
(* Language tags *)

LangChars == {"j", "J", "a", "A", "v", "V", "p", "P", "y", "Y", "x"}

Languages == SeqsUpTo(LangChars, MaxLangLen)

Sources == {"src1", "src2"}

\* str.lower on one character
LowerChar(c) ==
    CASE c = "J" -> "j"
      [] c = "A" -> "a"
      [] c = "V" -> "v"
      [] c = "P" -> "p"
      [] c = "Y" -> "y"
      [] OTHER -> c

\* str.lower
Lower(s) == [i \in 1..Len(s) |-> LowerChar(s[i])]

\* str.startswith
StartsWith(s, prefix) ==
    /\ Len(s) >= Len(prefix)
    /\ SubSeq(s, 1, Len(prefix)) = prefix

\* language.lower() == "java"
IsJava(lang) == Lower(lang) = <<"j", "a", "v", "a">>

\* a dispatcher that tests the first letter only
IsPython_FirstLetter(lang) == StartsWith(Lower(lang), <<"p">>)

\* language.lower().startswith("py")
IsPython(lang) == StartsWith(Lower(lang), <<"p", "y">>)

-----------------------------------------------------------------------------
(* The toolchain, as run_code sees it *)

ReturnCodes == {0, 1}
Stdouts == {<<>>, <<"o">>}
Stderrs == {<<>>, <<"e">>}

\* subprocess.run(..., capture_output=True, text=True): no timeout argument
NoTimeout == "None"
SubprocessTimeout == NoTimeout

\* a child process as started: the executable, the timeout it was given, and
\* whether the child ever exits on its own
Child(cmd, hangs) == [cmd |-> cmd, timeout |-> SubprocessTimeout, hangs |-> hangs]

Completed(rc, out, err) == [returncode |-> rc, stdout |-> out, stderr |-> err]

File(name, content) == [name |-> name, content |-> content]

\* tempfile.TemporaryDirectory().__enter__
MkDir(f, d) == [x \in DOMAIN f \cup {d} |-> IF x = d THEN {} ELSE f[x]]

\* open(file_path, "w").write(code), and what a compiler leaves in the directory
AddFile(f, d, file) == [f EXCEPT ![d] = @ \cup {file}]

RmTree(f, d) == [x \in DOMAIN f \ {d} |-> f[x]]

\* a directory made with mkdtemp and removed on the return paths only
TemporaryDirectoryExit_LeakOnRaise(f, d, how) == IF how = "raised" THEN f ELSE RmTree(f, d)

\* tempfile.TemporaryDirectory().__exit__: runs when the with block is left,
\* by a return ("returned") or by an exception ("raised")
TemporaryDirectoryExit(f, d, how) == RmTree(f, d)

ExecutionResult(co, ro, ec) == [compile_output |-> co, run_output |-> ro, exit_code |-> ec]

UnsupportedExit == -1

\* f"Language {language} not supported."
NotSupported(lang) == <<"Language ">> \o lang \o <<" not supported.">>

\* the result of the compile-failure branch
CompileFailed(cp) == ExecutionResult(cp.stderr, <<>>, cp.returncode)

\* the result of the Java run branch
JavaRan(cp, rp) == ExecutionResult(cp.stdout \o cp.stderr, rp.stdout \o rp.stderr, rp.returncode)

\* the result of the Python branch
PythonRan(rp) == ExecutionResult(<<>>, rp.stdout \o rp.stderr, rp.returncode)


-----------------------------------------------------------------------------
(* parse_analysis_response *)

NL == "\n"
WHAT == "**What it does:**"
SEC == "**Security issues:**"
IMPR == "**Improvement suggestions:**"
SUGG == "**Suggestions for improvement:**"

Markers == {WHAT, SEC, IMPR, SUGG}

Digits == {"0", "1", "2", "3", "4", "5", "6", "7", "8", "9"}

\* marker in line
Contains(line, marker) == \E i \in 1..Len(line) : line[i] = marker

RECURSIVE SplitAcc(_, _, _)
SplitAcc(t, cur, acc) ==
    IF t = <<>> THEN (IF cur = <<>> THEN acc ELSE Append(acc, cur))
    ELSE IF Head(t) = NL THEN SplitAcc(Tail(t), <<>>, Append(acc, cur))
    ELSE SplitAcc(Tail(t), Append(cur, Head(t)), acc)

\* str.splitlines
SplitLines(t) == SplitAcc(t, <<>>, <<>>)

RECURSIVE LStripChars(_, _)
\* str.lstrip(chars)
LStripChars(s, chars) ==
    IF s # <<>> /\ Head(s) \in chars THEN LStripChars(Tail(s), chars) ELSE s

RECURSIVE RStripChars(_, _)
\* str.rstrip(chars)
RStripChars(s, chars) ==
    IF s # <<>> /\ s[Len(s)] \in chars
    THEN RStripChars(SubSeq(s, 1, Len(s) - 1), chars) ELSE s

Whitespace == {" ", NL}

\* str.strip()
Strip(s) == RStripChars(LStripChars(s, Whitespace), Whitespace)

\* line[1:]
DropFirst(s) == SubSeq(s, 2, Len(s))

EmptySections == [what_it_does |-> <<>>, security_issues |-> <<>>, suggestions |-> <<>>]

\* line.startswith(("*", "-"))
SecurityPrefix(line) == StartsWith(line, <<"*">>) \/ StartsWith(line, <<"-">>)

\* line.startswith(("*", "-", "1.", "2.", "3."))
SuggestionPrefix(line) ==
    \/ StartsWith(line, <<"*">>)
    \/ StartsWith(line, <<"-">>)
    \/ StartsWith(line, <<"1", ".">>)
    \/ StartsWith(line, <<"2", ".">>)
    \/ StartsWith(line, <<"3", ".">>)

\* the element a security_issues line appends
SecurityItem(line) ==
    IF SecurityPrefix(line) THEN Strip(DropFirst(line)) ELSE line

\* the element a suggestions line appends: line.lstrip("*-1234567890. ").strip()
SuggestionItem(line) ==
    IF SuggestionPrefix(line)
    THEN Strip(LStripChars(line, {"*", "-", ".", " "} \cup Digits))
    ELSE line

\* the section a header line switches to, "none" when the line is no header
HeaderOf(line) ==
    IF Contains(line, WHAT) THEN "what_it_does"
    ELSE IF Contains(line, SEC) THEN "security_issues"
    ELSE IF Contains(line, IMPR) \/ Contains(line, SUGG) THEN "suggestions"
    ELSE "none"

\* "Append content to appropriate section"
AppendContent(secs, current_section, line) ==
    IF current_section = "what_it_does"
    THEN [secs EXCEPT !.what_it_does = @ \o line \o <<" ">>]
    ELSE IF current_section = "security_issues"
    THEN [secs EXCEPT !.security_issues = Append(@, SecurityItem(line))]
    ELSE IF current_section = "suggestions"
    THEN [secs EXCEPT !.suggestions = Append(@, SuggestionItem(line))]
    ELSE secs

\* a parser that starts inside the description
InitialSection_Description == "what_it_does"

\* the section cursor before the first line
InitialSection == "None"

\* one pass of the loop body over a raw line; st = [sections, current_section]
ParseLine(st, raw) ==
    LET line == Strip(raw) IN
    IF line = <<>> THEN st
    ELSE IF HeaderOf(line) # "none"
    THEN [st EXCEPT !.current_section = HeaderOf(line)]
    ELSE [st EXCEPT !.sections = AppendContent(@, st.current_section, line)]

RECURSIVE ParseLines(_, _)
ParseLines(st, lines) ==
    IF lines = <<>> THEN st ELSE ParseLines(ParseLine(st, Head(lines)), Tail(lines))

parse_analysis_response(t) ==
    LET st == ParseLines([sections |-> EmptySections, current_section |-> InitialSection],
                         SplitLines(t))
    IN [st.sections EXCEPT !.what_it_does = Strip(@)]

\* one bullet glyph, one digit and one spelling of the suggestions header stand
\* for the others, which the parser treats alike
TextChars == {"*", "1", ".", " ", "a", NL, WHAT, SEC, SUGG}

Texts == SeqsUpTo(TextChars, MaxTextLen)

-----------------------------------------------------------------------------
(* query_model and the response handling of analyze_code *)

Text(s) == [tag |-> "str", value |-> s]
Structured(m) == [tag |-> "dict", value |-> m]

Keys == {"response", "text", "error"}
KeyOrder == <<"response", "text", "error">>

\* the texts a response may carry under a key, or be
LLMValues == {<<>>, <<"a">>, <<WHAT, NL, "a">>}

Mappings == UNION {[K -> LLMValues] : K \in SUBSET Keys}

Exceptions == {<<"ConnectionError">>}

\* what requests.post(...), raise_for_status() and response.json() come to
HttpOutcomes ==
    {[ok |-> TRUE, json |-> v] : v \in {Structured(m) : m \in Mappings} \cup {Text(t) : t \in LLMValues}}
    \cup {[ok |-> FALSE, exc |-> e] : e \in Exceptions}

\* query_model: the decoded JSON, or {"error": str(e)}
query_model(http) ==
    IF http.ok THEN http.json
    ELSE Structured([k \in {"error"} |-> http.exc])

Returned(v) == [kind |-> "return", value |-> v]
Raised(e) == [kind |-> "raise", exc |-> e]

\* dict.get(key): None when the key is absent
DictGet(m, k) == IF k \in DOMAIN m THEN Some(m[k]) ELSE None

\* truth value of dict.get(key): None and "" are false
Truthy(o) == IsSome(o) /\ Get(o) # <<>>

\* repr of a string value: one line, the line break escaped
EscapeChar(c) == IF c = NL THEN "\\n" ELSE c
Repr(v) == <<"'">> \o [i \in 1..Len(v) |-> EscapeChar(v[i])] \o <<"'">>

RECURSIVE RenderFrom(_, _, _)
RenderFrom(m, i, first) ==
    IF i > Len(KeyOrder) THEN <<>>
    ELSE IF KeyOrder[i] \in DOMAIN m
    THEN (IF first THEN <<>> ELSE <<",", " ">>)
         \o Repr(<<KeyOrder[i]>>) \o <<":", " ">> \o Repr(m[KeyOrder[i]])
         \o RenderFrom(m, i + 1, FALSE)
    ELSE RenderFrom(m, i + 1, first)

\* str(llm_response) of a mapping
Render(m) == <<"{">> \o RenderFrom(m, 1, TRUE) \o <<"}">>

\* the two keys tried in the other order
ExtractFromDict_TextFirst(m) ==
    IF Truthy(DictGet(m, "text")) THEN m["text"]
    ELSE IF Truthy(DictGet(m, "response")) THEN m["response"]
    ELSE Render(m)

\* llm_response.get("response") or llm_response.get("text") or str(llm_response)
ExtractFromDict(m) ==
    IF Truthy(DictGet(m, "response")) THEN m["response"]
    ELSE IF Truthy(DictGet(m, "text")) THEN m["text"]
    ELSE Render(m)

\* the try block of analyze_code and its except branch
ResponseText(l) ==
    IF l.kind = "raise" THEN <<"[Error generating analysis] ">> \o l.exc
    ELSE IF l.value.tag = "dict" THEN ExtractFromDict(l.value.value)
    ELSE l.value.value

\* run_result.get(key, default)
GetOr(d, k, default) == IF k \in DOMAIN d THEN d[k] ELSE default

\* the mapping analyze_code returns
AnalysisReport(sa, rr) ==
    [analysis |-> sa,
     compile_output |-> GetOr(rr, "compile_output", <<>>),
     run_output |-> GetOr(rr, "run_output", <<>>),
     exit_code |-> GetOr(rr, "exit_code", 0)]

AnalyzeLanguages == {<<"j", "a", "v", "a">>, <<"P", "y">>, <<"x">>}

-----------------------------------------------------------------------------
(* The requests *)

Init ==
    /\ pc = "idle"
    /\ mode = "none"
    /\ calls = 0
    /\ language = <<>>
    /\ code = ""
    /\ fs = <<>>
    /\ nextDir = 1
    /\ tmpdir = 0
    /\ procs = <<>>
    /\ compile_proc = None
    /\ run_proc = None
    /\ outcome = "none"
    /\ fault = "none"
    /\ run_result = None
    /\ llm = None
    /\ llm_response_text = <<>>
    /\ structured_analysis = EmptySections
    /\ report = None
    /\ text = <<>>
    /\ sections = EmptySections

\* run_code is left: by a return with res (how = "returned"), or by the
\* exception how.  The with block's exit runs first; analyze_code then merges
\* a returned result and lets an exception through.
Leave(f, d, how, res, m, sa) ==
    /\ pc' = "done"
    /\ outcome' = IF how = "returned" THEN "returned" ELSE "raised"
    /\ fault' = IF how = "returned" THEN "none" ELSE how
    /\ fs' = TemporaryDirectoryExit(f, d, IF how = "returned" THEN "returned" ELSE "raised")
    /\ run_result' = res
    /\ report' = IF m = "analyze_code" /\ how = "returned"
                 THEN Some(AnalysisReport(sa, Get(res)))
                 ELSE None

\* run_code up to the first child process: the temporary directory, the
\* language dispatch, the source file
Enter(lang, src, m, sa) ==
    /\ calls' = calls + 1
    /\ mode' = m
    /\ language' = lang
    /\ code' = src
    /\ tmpdir' = nextDir
    /\ nextDir' = nextDir + 1
    /\ procs' = <<>>
    /\ compile_proc' = None
    /\ run_proc' = None
    /\ LET f == MkDir(fs, nextDir)
           name == IF IsJava(lang) THEN "Main.java" ELSE "script.py"
       IN IF IsJava(lang) \/ IsPython(lang)
          THEN \E writeFails \in BOOLEAN :
                 IF writeFails
                 THEN Leave(f, nextDir, "OSError", None, m, sa)
                 ELSE /\ fs' = AddFile(f, nextDir, File(name, src))
                      /\ pc' = "staged"
                      /\ outcome' = "none"
                      /\ fault' = "none"
                      /\ run_result' = None
                      /\ report' = None
          ELSE Leave(f, nextDir, "returned",
                     Some(ExecutionResult(<<>>, NotSupported(lang), UnsupportedExit)), m, sa)

\* POST /run_code
Call ==
    /\ pc = "idle"
    /\ calls < MaxCalls
    /\ \E lang \in Languages, src \in Sources :
        /\ Enter(lang, src, "run_code", EmptySections)
        /\ UNCHANGED <<analyzeVars, normVars>>

\* POST /analyze_code: the analysis capability answers or raises, the answer
\* is parsed, and run_code is entered
AnalyzeCall ==
    /\ pc = "idle"
    /\ calls < MaxCalls
    /\ \E lang \in AnalyzeLanguages, src \in Sources,
       l \in {Returned(query_model(h)) : h \in HttpOutcomes} \cup {Raised(e) : e \in Exceptions} :
        /\ llm' = Some(l)
        /\ llm_response_text' = ResponseText(l)
        /\ structured_analysis' = parse_analysis_response(ResponseText(l))
        /\ Enter(lang, src, "analyze_code", parse_analysis_response(ResponseText(l)))
        /\ UNCHANGED normVars

\* subprocess.run(["javac", file_path], ...) starts: javac is missing
\* (FileNotFoundError leaves run_code), or the child runs
StartCompile ==
    /\ pc = "staged"
    /\ IsJava(language)
    /\ \E missing \in BOOLEAN, hangs \in BOOLEAN :
         IF missing
         THEN /\ Leave(fs, tmpdir, "FileNotFoundError", None, mode, structured_analysis)
              /\ UNCHANGED procs
         ELSE /\ procs' = Append(procs, Child("javac", hangs))
              /\ pc' = "compiling"
              /\ UNCHANGED <<fs, outcome, fault, run_result, report>>
    /\ UNCHANGED <<mode, calls, language, code, nextDir, tmpdir, compile_proc, run_proc,
                   analyzeVars, normVars>>

\* a dispatcher that does not look at javac's status
CompileExit_RunAnyway ==
    /\ pc = "compiling"
    /\ ~procs[Len(procs)].hangs
    /\ \E rc \in ReturnCodes, out \in Stdouts, err \in Stderrs :
         /\ compile_proc' = Some(Completed(rc, out, err))
         /\ pc' = "compiled"
         /\ fs' = AddFile(fs, tmpdir, File("Main.class", code))
         /\ UNCHANGED <<outcome, fault, run_result, report>>
    /\ UNCHANGED <<mode, calls, language, code, nextDir, tmpdir, procs, run_proc,
                   analyzeVars, normVars>>

\* javac exits: a non-zero status returns at once, a zero status goes on
CompileExit ==
    /\ pc = "compiling"
    /\ ~procs[Len(procs)].hangs
    /\ \E rc \in ReturnCodes, out \in Stdouts, err \in Stderrs :
         LET cp == Completed(rc, out, err) IN
         /\ compile_proc' = Some(cp)
         /\ IF rc # 0
            THEN Leave(fs, tmpdir, "returned", Some(CompileFailed(cp)), mode, structured_analysis)
            ELSE /\ pc' = "compiled"
                 /\ fs' = AddFile(fs, tmpdir, File("Main.class", code))
                 /\ UNCHANGED <<outcome, fault, run_result, report>>
    /\ UNCHANGED <<mode, calls, language, code, nextDir, tmpdir, procs, run_proc,
                   analyzeVars, normVars>>

\* subprocess.run(["java", "-cp", tmpdir, "Main"], ...) or
\* subprocess.run(["python", file_path], ...) starts
StartRun ==
    /\ \/ pc = "compiled"
       \/ pc = "staged" /\ IsPython(language) /\ ~IsJava(language)
    /\ \E missing \in BOOLEAN, hangs \in BOOLEAN :
         IF missing
         THEN /\ Leave(fs, tmpdir, "FileNotFoundError", None, mode, structured_analysis)
              /\ UNCHANGED procs
         ELSE /\ procs' = Append(procs, Child(IF pc = "compiled" THEN "java" ELSE "python", hangs))
              /\ pc' = "running"
              /\ UNCHANGED <<fs, outcome, fault, run_result, report>>
    /\ UNCHANGED <<mode, calls, language, code, nextDir, tmpdir, compile_proc, run_proc,
                   analyzeVars, normVars>>

\* the java or python child exits and run_code returns
RunExit ==
    /\ pc = "running"
    /\ ~procs[Len(procs)].hangs
    /\ \E rc \in ReturnCodes, out \in Stdouts, err \in Stderrs :
         LET rp == Completed(rc, out, err) IN
         /\ run_proc' = Some(rp)
         /\ Leave(fs, tmpdir, "returned",
                  Some(IF IsSome(compile_proc) THEN JavaRan(Get(compile_proc), rp) ELSE PythonRan(rp)),
                  mode, structured_analysis)
    /\ UNCHANGED <<mode, calls, language, code, nextDir, tmpdir, procs, compile_proc,
                   analyzeVars, normVars>>

\* the endpoint hands the result (or the fault) to its caller and the
\* request is over: nothing of it is kept but the filesystem
Respond ==
    /\ pc = "done"
    /\ pc' = "idle"
    /\ mode' = "none"
    /\ language' = <<>>
    /\ code' = ""
    /\ tmpdir' = 0
    /\ procs' = <<>>
    /\ compile_proc' = None
    /\ run_proc' = None
    /\ outcome' = "none"
    /\ fault' = "none"
    /\ run_result' = None
    /\ llm' = None
    /\ llm_response_text' = <<>>
    /\ structured_analysis' = EmptySections
    /\ report' = None
    /\ UNCHANGED <<calls, fs, nextDir, normVars>>

\* parse_analysis_response on a text
Normalize ==
    /\ pc = "idle"
    /\ \E t \in Texts :
        /\ text' = t
        /\ sections' = parse_analysis_response(t)
        /\ pc' = "parsed"
        /\ UNCHANGED <<mode, calls, language, code, fs, nextDir, tmpdir, procs, compile_proc,
                       run_proc, outcome, fault, run_result, report, analyzeVars>>

Next == Call \/ StartCompile \/ CompileExit \/ StartRun \/ RunExit \/ Respond
Spec == Init /\ [][Next]_vars

NextAnalyze == AnalyzeCall \/ StartCompile \/ CompileExit \/ StartRun \/ RunExit \/ Respond
SpecAnalyze == Init /\ [][NextAnalyze]_vars

NextNorm == Normalize
SpecNorm == Init /\ [][NextNorm]_vars

-----------------------------------------------------------------------------
(* Properties of run_code (Spec) *)

LastChild == procs[Len(procs)]
Started(cmd) == \E i \in 1..Len(procs) : procs[i].cmd = cmd

\* C1: run_code is total over the toolchain's behaviours: whatever the
\* compiler, runtime or interpreter does (missing, never exiting, non-zero
\* exit), a request that has ended has returned a result and raised nothing.
C1_ExecuteTotal ==
    (pc = "done" /\ fault # "OSError") => (outcome = "returned" /\ IsSome(run_result))

\* C2: for Java the run step is started only after a compile step that
\* returned status 0; after a compile step with a non-zero status no run
\* step exists and the result carries the compiler's status, an empty
\* run_output and the compiler's diagnostics in compile_output.
C2_CompileGate ==
    /\ Started("java") => (IsSome(compile_proc) /\ Get(compile_proc).returncode = 0)
    /\ (IsSome(compile_proc) /\ Get(compile_proc).returncode # 0) =>
          /\ pc = "done"
          /\ outcome = "returned"
          /\ ~Started("java")
          /\ run_proc = None
          /\ Get(run_result).exit_code = Get(compile_proc).returncode
          /\ Get(run_result).exit_code # 0
          /\ Get(run_result).run_output = <<>>
          /\ Get(run_result).compile_output = Get(compile_proc).stderr

\* C2's case: a request ended by a failed compile step
C2_Witness ==
    /\ pc = "done"
    /\ IsSome(compile_proc)
    /\ Get(compile_proc).returncode # 0
    /\ Get(compile_proc).stderr # <<>>
    /\ Started("javac")

\* C3: once a request has ended, by a result or by a fault, no workspace
\* directory it created exists.
C3_WorkspaceReleased ==
    pc \in {"idle", "done"} => DOMAIN fs = {}

\* C3's case: a request ended by a fault after its workspace held files
C3_Witness ==
    /\ pc = "done"
    /\ outcome = "raised"
    /\ fault = "FileNotFoundError"
    /\ IsSome(compile_proc)
    /\ tmpdir \notin DOMAIN fs

\* C4: a child process that never exits on its own runs under a timeout, so
\* the request waiting for it is not blocked forever.
C4_ChildrenTimeBounded ==
    (pc \in {"compiling", "running"} /\ LastChild.hangs) => LastChild.timeout # NoTimeout

\* a tag that is 'java' but for the case of its letters
C8_IsJavaTag(l) ==
    /\ Len(l) = 4
    /\ l[1] \in {"j", "J"} /\ l[2] \in {"a", "A"} /\ l[3] \in {"v", "V"} /\ l[4] \in {"a", "A"}

\* a tag whose first two letters are 'py' but for their case
C8_IsPyTag(l) == Len(l) >= 2 /\ l[1] \in {"p", "P"} /\ l[2] \in {"y", "Y"}

\* C8: a request for a language tag that is neither 'java' nor starts with
\* 'py' (both case-insensitive) returns exit_code -1, an empty
\* compile_output and the not-supported message, and starts no child process.
C8_Unsupported ==
    (pc = "done" /\ ~C8_IsJavaTag(language) /\ ~C8_IsPyTag(language)) =>
        /\ outcome = "returned"
        /\ Get(run_result).exit_code = -1
        /\ Get(run_result).compile_output = <<>>
        /\ Get(run_result).run_output # <<>>
        /\ Get(run_result).run_output = <<"Language ">> \o language \o <<" not supported.">>
        /\ procs = <<>>
        /\ compile_proc = None
        /\ run_proc = None

\* C8's case: a request for a tag one letter short of 'java' has ended
C8_Witness ==
    /\ pc = "done"
    /\ language = <<"J", "a", "v">>
    /\ outcome = "returned"

\* C9: compile_output is the compile step's stdout followed by its stderr
\* whenever a compile step ran, and run_output is the run step's stdout
\* followed by its stderr whenever a run step ran.
C9_OutputsMerged ==
    (pc = "done" /\ outcome = "returned") =>
        /\ IsSome(compile_proc) =>
              Get(run_result).compile_output = Get(compile_proc).stdout \o Get(compile_proc).stderr
        /\ IsSome(run_proc) =>
              Get(run_result).run_output = Get(run_proc).stdout \o Get(run_proc).stderr

-----------------------------------------------------------------------------
(* Properties of analyze_code (SpecAnalyze) *)

\* the capability raised, or answered with the error shape {"error": ...}
C5_CapabilityFailed ==
    /\ IsSome(llm)
    /\ \/ Get(llm).kind = "raise"
       \/ /\ Get(llm).kind = "return"
          /\ Get(llm).value.tag = "dict"
          /\ "error" \in DOMAIN Get(llm).value.value

\* C5: when the analysis capability raised or answered with an error shape,
\* an ended analyze request has returned a report with its four fields, the
\* dispatcher was entered on the same language and source, and the three
\* execution fields are those run_code returned.
C5_AnalysisFailureIndependent ==
    (pc = "done" /\ mode = "analyze_code" /\ C5_CapabilityFailed /\ fault # "OSError") =>
        /\ IsSome(report)
        /\ DOMAIN Get(report) = {"analysis", "compile_output", "run_output", "exit_code"}
        /\ IsSome(run_result)
        /\ Get(report).compile_output = Get(run_result).compile_output
        /\ Get(report).run_output = Get(run_result).run_output
        /\ Get(report).exit_code = Get(run_result).exit_code

\* the raw text by the rule "first key present, else second key present, else rendering"
C10_ByPresence(v) ==
    IF v.tag = "dict"
    THEN IF "response" \in DOMAIN v.value THEN v.value["response"]
         ELSE IF "text" \in DOMAIN v.value THEN v.value["text"]
         ELSE Render(v.value)
    ELSE v.value

\* the raw text by the rule "first key with a non-empty value, else second
\* key with a non-empty value, else rendering"
C10_ByNonEmptyValue(v) ==
    IF v.tag = "dict"
    THEN IF "response" \in DOMAIN v.value /\ v.value["response"] # <<>> THEN v.value["response"]
         ELSE IF "text" \in DOMAIN v.value /\ v.value["text"] # <<>> THEN v.value["text"]
         ELSE Render(v.value)
    ELSE v.value

\* C10 as stated: the raw text is the value of 'response' when that key is
\* present, else the value of 'text' when that key is present, else the
\* rendering of the mapping; a plain text is its own raw text.
C10_FirstPresentKey ==
    (IsSome(llm) /\ Get(llm).kind = "return") =>
        llm_response_text = C10_ByPresence(Get(llm).value)

\* C10 as amended: the raw text is the value of 'response' when that key is
\* present with a non-empty value, else the value of 'text' when that key is
\* present with a non-empty value, else the rendering of the mapping; a plain
\* text is its own raw text.
C10_FirstNonEmptyKey ==
    (IsSome(llm) /\ Get(llm).kind = "return") =>
        llm_response_text = C10_ByNonEmptyValue(Get(llm).value)

\* C10's case: both keys present, the first one empty
C10_Witness ==
    /\ IsSome(llm)
    /\ Get(llm).kind = "return"
    /\ Get(llm).value.tag = "dict"
    /\ DOMAIN Get(llm).value.value = {"response", "text"}
    /\ Get(llm).value.value["response"] = <<>>
    /\ Get(llm).value.value["text"] = <<WHAT, NL, "a">>
    /\ llm_response_text = <<WHAT, NL, "a">>
    /\ structured_analysis.what_it_does = <<"a">>

-----------------------------------------------------------------------------
(* Properties of parse_analysis_response (SpecNorm) *)

\* a line with one leading glyph removed: '*', '-', or, with digitDot, a
\* digit followed by a dot
C6_GlyphRemoved(line, digitDot) ==
    IF StartsWith(line, <<"*">>) \/ StartsWith(line, <<"-">>)
    THEN Strip(DropFirst(line))
    ELSE IF digitDot /\ Len(line) >= 2 /\ line[1] \in Digits /\ line[2] = "."
    THEN Strip(SubSeq(line, 3, Len(line)))
    ELSE line

RECURSIVE C6_ItemsUnder(_, _, _)
\* the elements the non-blank non-marker lines under a section's marker
\* stand for, in input order
C6_ItemsUnder(lines, cursor, section) ==
    IF lines = <<>> THEN <<>>
    ELSE LET line == Strip(Head(lines)) IN
         IF line = <<>> THEN C6_ItemsUnder(Tail(lines), cursor, section)
         ELSE IF HeaderOf(line) # "none" THEN C6_ItemsUnder(Tail(lines), HeaderOf(line), section)
         ELSE IF cursor = section
         THEN <<C6_GlyphRemoved(line, section = "suggestions")>>
              \o C6_ItemsUnder(Tail(lines), cursor, section)
         ELSE C6_ItemsUnder(Tail(lines), cursor, section)

\* C6: each non-blank non-marker line under the security or the suggestions
\* marker adds exactly one element, in input order: the trimmed line with a
\* single leading glyph removed, or the trimmed line itself without one.
C6_OneItemPerLine ==
    pc = "parsed" =>
        /\ sections.security_issues = C6_ItemsUnder(SplitLines(text), "None", "security_issues")
        /\ sections.suggestions = C6_ItemsUnder(SplitLines(text), "None", "suggestions")

IsHeaderLine(raw) == HeaderOf(Strip(raw)) # "none"

RECURSIVE C7_FromFirstMarker(_)
\* the lines from the first marker line on
C7_FromFirstMarker(lines) ==
    IF lines = <<>> THEN <<>>
    ELSE IF IsHeaderLine(Head(lines)) THEN lines
    ELSE C7_FromFirstMarker(Tail(lines))

RECURSIVE C7_Join(_)
\* lines joined back into a text
C7_Join(lines) ==
    IF lines = <<>> THEN <<>>
    ELSE Head(lines) \o <<NL>> \o C7_Join(Tail(lines))

\* C7: the lines before the first marker add to no field: the result is the
\* result for the text from the first marker line on, and the all-empty
\* sections for a text without a marker.
C7_PreMarkerDropped ==
    pc = "parsed" =>
        /\ sections = parse_analysis_response(C7_Join(C7_FromFirstMarker(SplitLines(text))))
        /\ (\A i \in 1..Len(text) : text[i] \notin Markers) => sections = EmptySections

\* C7's case: a non-blank line, then a marker line, then content
C7_Witness ==
    /\ pc = "parsed"
    /\ text = <<"a", NL, SEC, NL, "a">>
    /\ sections.security_issues = <<<<"a">>>>

=============================================================================
